---- MODULE Spec2Model ----
(***************************************************************************)
(* A model of brainfuck-jit: the run-length iterator (src/runlength.rs),   *)
(* the program builder Brainfuck::new, the x86-64 code generator compile,  *)
(* and the executor Brainfuck::run (src/main.rs).                          *)
(*                                                                         *)
(* Characters are one-character strings, a source text is a sequence of    *)
(* them.  Instruction indices, jump targets and buffer positions are       *)
(* 0-based as in the code; TLA+ sequences are 1-based, so the instruction  *)
(* with index i is insts[i + 1] and the byte at offset o is buf[o + 1].    *)
(* A usize / isize / u64 value that reaches the encoder or the machine is  *)
(* a tuple of 8 bytes, little-endian, so that casts and sign extension     *)
(* keep their width.                                                       *)
(***************************************************************************)
EXTENDS Integers, Sequences, FiniteSets, TLC

VARIABLES
    source,      \* the text handed to Brainfuck::new
    result,      \* "none" before new, then "Ok", "Err" (UnbalancedBrackets) or "Panic"
    insts,       \* Brainfuck.insts
    jit_code,    \* Brainfuck.jit_code
    tape_size,   \* Brainfuck.tape_size
    last_set,    \* history: None, or Some(the last value passed to set_tape_size)
    run_state,   \* "idle", "running" (inside func(..)) or "crashed" (the process died)
    tape,        \* the tape of the run in progress
    mapping,     \* the executable copy of jit_code of the run in progress
    cpu,         \* the registers of the run in progress: rip, rsi, rax, rdi, rdx, zf
    stdout,      \* the bytes written to fd 1
    layout,      \* where the allocator put jit_code relative to the tape of the run
    runs,        \* history: the number of calls of run
    strayed,     \* history: some access of a run fell outside its tape
    dirty,       \* history: some finished run left a non-zero cell on its tape
    rl_input,    \* the sequence a RunLength iterates over
    rl_iter,     \* the RunLength iterator
    rl_out,      \* the pairs next has returned
    rl_calls,    \* the calls of next up to the first None
    rl_done,     \* next has returned None
    enc_op,      \* the instruction whose encoding is executed alone
    enc_amount,  \* its amount, a usize
    enc_cell     \* the value of the cell before it

bfVars == <<source, result, insts, jit_code, tape_size, last_set>>
runVars == <<run_state, tape, mapping, cpu, stdout, layout, runs, strayed, dirty>>
rlVars == <<rl_input, rl_iter, rl_out, rl_calls, rl_done>>
encVars == <<enc_op, enc_amount, enc_cell>>
vars == <<bfVars, runVars, rlVars, encVars>>

(***************************************************************************)
(* Bounds of the model.                                                    *)
(***************************************************************************)
MaxLen == 4       \* longest source text handed to Brainfuck::new
MaxSeed == 1      \* hash seeds 0..MaxSeed of the HashMap's RandomState
MaxTape == 2      \* set_tape_size is called with 0..MaxTape

(***************************************************************************)
(* Option<T>                                                               *)
(***************************************************************************)
None == <<>>
Some(v) == <<v>>

Max(a, b) == IF a >= b THEN a ELSE b

(***************************************************************************)
(* Fixed-width integers as little-endian byte tuples.                      *)
(***************************************************************************)
\* n as usize (0 <= n), 8 bytes.
USize(n) ==
    << n % 256, (n \div 256) % 256, (n \div 65536) % 256, (n \div 16777216) % 256,
       0, 0, 0, 0 >>

\* x as i32, 4 bytes, two's complement (\div rounds down, % is non-negative).
I32Bytes(x) ==
    << x % 256, (x \div 256) % 256, (x \div 65536) % 256, (x \div 16777216) % 256 >>

\* x as isize, 8 bytes, two's complement.
ISize(x) == I32Bytes(x) \o (IF x < 0 THEN <<255, 255, 255, 255>> ELSE <<0, 0, 0, 0>>)

\* The signed value of 4 little-endian bytes.
SInt32(b) ==
    b[1] + 256 * b[2] + 65536 * b[3]
      + 16777216 * (IF b[4] >= 128 THEN b[4] - 256 ELSE b[4])

\* `v as u32` / `v as i32` of an 8-byte value: the low 4 bytes.
LowU32(v) == SubSeq(v, 1, 4)
AsI32(v) == SInt32(LowU32(v))

\* x - 9 in i32 (wrapping below i32::MIN as the release build does).
I32Minus9(x) ==
    IF x >= -2147483647 - 1 + 9 THEN x - 9
    ELSE (x + 2147483647 + 1) + (2147483647 - 8)

(***************************************************************************)
(* src/runlength.rs                                                        *)
(***************************************************************************)
\* The underlying iterator (slice::Iter, Chars): the elements not yet consumed.
IterNext(it) ==
    IF it = <<>> THEN [val |-> None, it |-> it]
    ELSE [val |-> Some(Head(it)), it |-> Tail(it)]

\* Peekable<I>: the iterator and the buffered result of a peek,
\* peeked : Option<Option<Item>>.
Peekable(it) == [iter |-> it, peeked |-> None]

PeekableNext(p) ==
    IF p.peeked # None
    THEN [val |-> p.peeked[1], p |-> [p EXCEPT !.peeked = None]]
    ELSE LET r == IterNext(p.iter)
         IN [val |-> r.val, p |-> [p EXCEPT !.iter = r.it]]

PeekablePeek(p) ==
    IF p.peeked # None
    THEN [val |-> p.peeked[1], p |-> p]
    ELSE LET r == IterNext(p.iter)
         IN [val |-> r.val, p |-> [iter |-> r.it, peeked |-> Some(r.val)]]

\* RunLength::new
RunLengthNew(it) == Peekable(it)

\* The while loop of RunLength::next.
RECURSIVE RunLengthWhile(_, _, _)
RunLengthWhile(p, current, length) ==
    LET pk == PeekablePeek(p)
    IN IF pk.val = Some(current)
       THEN RunLengthWhile(PeekableNext(pk.p).p, current, length + 1)
       ELSE [val |-> Some(<<length, current>>), p |-> pk.p]

\* A mutant of RunLengthNext: the run is not extended by the peek loop.
RunLengthNextNoLoop(p) ==
    LET r == PeekableNext(p)
    IN IF r.val = None THEN [val |-> None, p |-> r.p]
       ELSE [val |-> Some(<<1, r.val[1]>>), p |-> r.p]

\* RunLength::next: the Option it returns and the iterator afterwards.
RunLengthNext(p) ==
    LET r == PeekableNext(p)
    IN IF r.val = None THEN [val |-> None, p |-> r.p]
       ELSE RunLengthWhile(r.p, r.val[1], 1)

(***************************************************************************)
(* src/main.rs: enum Inst                                                  *)
(***************************************************************************)
IncPtr(a) == <<"IncPtr", a>>
DecPtr(a) == <<"DecPtr", a>>
IncVal(a) == <<"IncVal", a>>
DecVal(a) == <<"DecVal", a>>
PrintCell == <<"PrintCell">>
ReadChar == <<"ReadChar">>
JmpFwd(n) == <<"JmpFwd", n>>
JmpBack(n) == <<"JmpBack", n>>

is_jmp_fwd(inst) == inst[1] = "JmpFwd"
is_jmp_back(inst) == inst[1] = "JmpBack"

(***************************************************************************)
(* src/main.rs: compile                                                    *)
(***************************************************************************)
\* Cursor<Vec<u8>>: the buffer and the 0-based write position.
CursorNew == [buf |-> <<>>, pos |-> 0]

\* Write for Cursor<Vec<u8>>: overwrites from pos on, growing the vector.
CursorWrite(mem, bytes) ==
    LET n == Len(bytes)
        newlen == Max(Len(mem.buf), mem.pos + n)
    IN [buf |-> IF mem.pos = Len(mem.buf) THEN mem.buf \o bytes
                ELSE [i \in 1..newlen |->
                        IF i > mem.pos /\ i <= mem.pos + n THEN bytes[i - mem.pos]
                        ELSE IF i <= Len(mem.buf) THEN mem.buf[i] ELSE 0],
        pos |-> mem.pos + n]

emit_inc(mem, amount) ==
    IF amount = USize(1)
    THEN CursorWrite(mem, <<\h48, \hff, \hc6>>)
    ELSE CursorWrite(mem, <<\h48, \h81, \hc6>> \o LowU32(amount))

emit_dec(mem, amount) ==
    IF amount = USize(1)
    THEN CursorWrite(mem, <<\h48, \hff, \hce>>)
    ELSE CursorWrite(mem, <<\h48, \h81, \hee>> \o LowU32(amount))

emit_inc_val(mem, amount) ==
    IF amount = USize(1)
    THEN CursorWrite(mem, <<\hfe, \h06>>)
    ELSE CursorWrite(mem, <<\h80, \h06, amount[1]>>)

emit_dec_val(mem, amount) ==
    IF amount = USize(1)
    THEN CursorWrite(mem, <<\hfe, \h0e>>)
    ELSE CursorWrite(mem, <<\h80, \h2e, amount[1]>>)

\* A mutant of emit_jmp_fwd: the displacement is not made relative to the
\* end of the 9-byte instruction.
emit_jmp_fwd_no9(mem, offset) ==
    CursorWrite(CursorWrite(mem, <<\h80, \h3e, \h00, \h0f, \h84>>),
                I32Bytes(AsI32(offset)))

emit_jmp_fwd(mem, offset) ==
    CursorWrite(CursorWrite(mem, <<\h80, \h3e, \h00, \h0f, \h84>>),
                I32Bytes(I32Minus9(AsI32(offset))))

emit_jmp_back(mem, offset) ==
    CursorWrite(CursorWrite(mem, <<\h80, \h3e, \h00, \h0f, \h85>>),
                I32Bytes(I32Minus9(AsI32(offset))))

emit_print(mem) ==
    CursorWrite(mem, << \hb8, \h01, \h00, \h00, \h00,
                        \hbf, \h01, \h00, \h00, \h00,
                        \hba, \h01, \h00, \h00, \h00,
                        \h0f, \h05 >>)

emit_read(mem) ==
    CursorWrite(mem, << \h48, \h31, \hc0,
                        \h48, \h31, \hff,
                        \hba, \h01, \h00, \h00, \h00,
                        \h0f, \h05 >>)

emit_ret(mem) == CursorWrite(mem, <<\hc3>>)

\* HashMap<usize, usize> with RandomState: a table of <<key, value>> entries
\* whose storage order depends on the seed of the hasher.
Hash(seed, k) == (k * (seed \div 2 + 1) + seed) % (seed \div 2 + 2)

HashMapNew == <<>>

HashMapHas(m, k) == \E j \in 1..Len(m) : m[j][1] = k

HashMapInsert(m, seed, k, v) ==
    IF HashMapHas(m, k)
    THEN [j \in 1..Len(m) |-> IF m[j][1] = k THEN <<k, v>> ELSE m[j]]
    ELSE LET before == SelectSeq(m, LAMBDA e : Hash(seed, e[1]) <= Hash(seed, k))
             after == SelectSeq(m, LAMBDA e : Hash(seed, e[1]) > Hash(seed, k))
         IN before \o <<<<k, v>>>> \o after

\* A mutant of HashMapIndex: the entry is found by its place in the table
\* (the first stored entry whose key is not below k), not by its key.
HashMapIndexByOrder(m, k) ==
    LET hits == SelectSeq(m, LAMBDA e : e[1] >= k)
    IN IF hits = <<>> THEN None ELSE Some(hits[1][2])

\* Index for HashMap, `m[&k]`: None stands for the panic on a missing key.
HashMapIndex(m, k) ==
    LET hits == SelectSeq(m, LAMBDA e : e[1] = k)
    IN IF hits = <<>> THEN None ELSE Some(hits[1][2])

\* The dummy offset of pass one.
DummyOffset == \h41414141

\* The state of compile: the cursor, the offset map, the list of forward
\* jumps, and whether an index or a subtraction has panicked.
CompileInit ==
    [mem |-> CursorNew, addr_mapping |-> HashMapNew, fwd_jumps |-> <<>>,
     panic |-> FALSE]

\* The body of the first loop for instruction i (0-based).
PassOneStep(cs, i, inst, seed) ==
    IF cs.panic THEN cs
    ELSE CASE inst[1] = "IncPtr" -> [cs EXCEPT !.mem = emit_inc(@, USize(inst[2]))]
           [] inst[1] = "DecPtr" -> [cs EXCEPT !.mem = emit_dec(@, USize(inst[2]))]
           [] inst[1] = "IncVal" -> [cs EXCEPT !.mem = emit_inc_val(@, USize(inst[2]))]
           [] inst[1] = "DecVal" -> [cs EXCEPT !.mem = emit_dec_val(@, USize(inst[2]))]
           [] inst[1] = "PrintCell" -> [cs EXCEPT !.mem = emit_print(@)]
           [] inst[1] = "ReadChar" -> [cs EXCEPT !.mem = emit_read(@)]
           [] inst[1] = "JmpFwd" ->
                LET m1 == emit_jmp_fwd(cs.mem, USize(DummyOffset))
                IN [cs EXCEPT !.fwd_jumps = Append(@, <<cs.mem.pos, inst[2]>>),
                              !.mem = m1,
                              !.addr_mapping = HashMapInsert(@, seed, i, m1.pos)]
           [] inst[1] = "JmpBack" ->
                LET a == HashMapIndex(cs.addr_mapping, inst[2])
                IN IF a = None THEN [cs EXCEPT !.panic = TRUE]
                   ELSE LET distance == cs.mem.pos - a[1]
                            m1 == emit_jmp_back(cs.mem, ISize(-distance))
                        IN [cs EXCEPT !.mem = m1,
                                      !.addr_mapping = HashMapInsert(@, seed, i, m1.pos)]

\* The first loop after its first k iterations.
RECURSIVE PassOne(_, _, _)
PassOne(is, k, seed) ==
    IF k = 0 THEN CompileInit
    ELSE PassOneStep(PassOne(is, k - 1, seed), k - 1, is[k], seed)

\* The body of the second loop for the forward jump <<offset, n>>.
PassTwoStep(cs, jump) ==
    IF cs.panic THEN cs
    ELSE LET offset == jump[1]
             a == HashMapIndex(cs.addr_mapping, jump[2])
             m0 == [cs.mem EXCEPT !.pos = offset]
         IN IF a = None \/ a[1] < offset THEN [cs EXCEPT !.panic = TRUE, !.mem = m0]
            ELSE [cs EXCEPT !.mem = emit_jmp_fwd(m0, USize(a[1] - offset))]

\* The second loop after its first k iterations.
RECURSIVE PassTwo(_, _)
PassTwo(cs, k) ==
    IF k = 0 THEN cs
    ELSE PassTwoStep(PassTwo(cs, k - 1), cs.fwd_jumps[k])

\* A mutant of SeekEnd: the position is left where pass two put it.
SeekEndOmitted(mem) == mem

\* mem.seek(SeekFrom::End(0))
SeekEnd(mem) == [mem EXCEPT !.pos = Len(mem.buf)]

\* compile: the code buffer, and whether compile panicked.
compile(is, seed) ==
    LET one == PassOne(is, Len(is), seed)
        two == PassTwo(one, Len(one.fwd_jumps))
    IN IF two.panic THEN [code |-> two.mem.buf, panic |-> TRUE]
       ELSE [code |-> emit_ret(SeekEnd(two.mem)).buf, panic |-> FALSE]

(***************************************************************************)
(* src/main.rs: Brainfuck::new                                             *)
(***************************************************************************)
Symbols == {">", "<", "+", "-", ".", ",", "[", "]"}

\* A mutant of Filter: nothing is filtered out.
FilterNothing(program) == program

\* program.chars().filter(...).collect()
Filter(program) == SelectSeq(program, LAMBDA c : c \in Symbols)

\* for _ in 0..length { insts.push(inst) }
RECURSIVE PushTimes(_, _, _)
PushTimes(b, inst, length) ==
    IF length = 0 THEN b
    ELSE PushTimes([b EXCEPT !.insts = Append(@, inst)], inst, length - 1)

\* The arm of '[': for _ in 0..length { stack.push(insts.len()); insts.push(JmpFwd(0)) }
RECURSIVE OpenTimes(_, _)
OpenTimes(b, length) ==
    IF length = 0 THEN b
    ELSE OpenTimes([b EXCEPT !.stack = Append(@, Len(b.insts)),
                             !.insts = Append(@, JmpFwd(0))], length - 1)

\* A mutant of CloseTimes: the popped JmpFwd keeps its dummy target.
RECURSIVE CloseTimesNoPatch(_, _)
CloseTimesNoPatch(b, length) ==
    IF length = 0 THEN b
    ELSE IF b.stack = <<>> THEN [b EXCEPT !.err = TRUE]
    ELSE LET n == b.stack[Len(b.stack)]
         IN CloseTimesNoPatch([b EXCEPT !.stack = SubSeq(@, 1, Len(@) - 1),
                                        !.insts = Append(@, JmpBack(n))],
                              length - 1)

\* The arm of ']': pop, fail on an empty stack, patch the JmpFwd, push the JmpBack.
RECURSIVE CloseTimes(_, _)
CloseTimes(b, length) ==
    IF length = 0 THEN b
    ELSE IF b.stack = <<>> THEN [b EXCEPT !.err = TRUE]
    ELSE LET n == b.stack[Len(b.stack)]
             patched == [b.insts EXCEPT ![n + 1] = JmpFwd(Len(b.insts))]
         IN CloseTimes([b EXCEPT !.stack = SubSeq(@, 1, Len(@) - 1),
                                 !.insts = Append(patched, JmpBack(n))],
                       length - 1)

\* A mutant of BuildStep: a run of '.' or ',' is collapsed into one instruction.
BuildStepCollapseIO(b, length, c) ==
    CASE c = ">" -> [b EXCEPT !.insts = Append(@, IncPtr(length))]
      [] c = "<" -> [b EXCEPT !.insts = Append(@, DecPtr(length))]
      [] c = "+" -> [b EXCEPT !.insts = Append(@, IncVal(length))]
      [] c = "-" -> [b EXCEPT !.insts = Append(@, DecVal(length))]
      [] c = "." -> PushTimes(b, PrintCell, 1)
      [] c = "," -> PushTimes(b, ReadChar, 1)
      [] c = "[" -> OpenTimes(b, length)
      [] c = "]" -> CloseTimes(b, length)
      [] OTHER -> [b EXCEPT !.panic = TRUE]

\* The match on one run-length pair; the last arm is unreachable!().
BuildStep(b, length, c) ==
    CASE c = ">" -> [b EXCEPT !.insts = Append(@, IncPtr(length))]
      [] c = "<" -> [b EXCEPT !.insts = Append(@, DecPtr(length))]
      [] c = "+" -> [b EXCEPT !.insts = Append(@, IncVal(length))]
      [] c = "-" -> [b EXCEPT !.insts = Append(@, DecVal(length))]
      [] c = "." -> PushTimes(b, PrintCell, length)
      [] c = "," -> PushTimes(b, ReadChar, length)
      [] c = "[" -> OpenTimes(b, length)
      [] c = "]" -> CloseTimes(b, length)
      [] OTHER -> [b EXCEPT !.panic = TRUE]

\* The for loop over program.chars().run_length().
RECURSIVE BuildLoop(_, _)
BuildLoop(b, rl) ==
    LET r == RunLengthNext(rl)
    IN IF r.val = None THEN b
       ELSE LET b1 == BuildStep(b, r.val[1][1], r.val[1][2])
            IN IF b1.err \/ b1.panic THEN b1 ELSE BuildLoop(b1, r.p)

BuildInit == [insts |-> <<>>, stack |-> <<>>, err |-> FALSE, panic |-> FALSE]

\* A mutant of StackCheck: opens left on the stack are not reported.
StackCheckOmitted(b) == b

\* if !stack.is_empty() { return Err(UnbalancedBrackets) }
StackCheck(b) == IF b.stack # <<>> THEN [b EXCEPT !.err = TRUE] ELSE b

DefaultTapeSize == 30000

Failed(kind) == [result |-> kind, insts |-> <<>>, jit_code |-> <<>>, tape_size |-> 0]

\* Brainfuck::new(program), with the seed the HashMap of compile draws.
BrainfuckNew(program, seed) ==
    LET b == StackCheck(BuildLoop(BuildInit, RunLengthNew(Filter(program))))
    IN IF b.panic THEN Failed("Panic")
       ELSE IF b.err THEN Failed("Err")
       ELSE LET c == compile(b.insts, seed)
            IN IF c.panic THEN Failed("Panic")
               ELSE [result |-> "Ok", insts |-> b.insts, jit_code |-> c.code,
                     tape_size |-> DefaultTapeSize]

(***************************************************************************)
(* The machine the generated code runs on: the x86-64 instructions that    *)
(* compile emits, decoded from the bytes of the executable mapping.        *)
(* rsi is kept as the 64-bit offset from the base of the tape.             *)
(***************************************************************************)
RECURSIVE AddFrom(_, _, _, _)
AddFrom(a, b, k, carry) ==
    IF k > 8 THEN <<>>
    ELSE LET sum == a[k] + b[k] + carry
         IN <<sum % 256>> \o AddFrom(a, b, k + 1, sum \div 256)

\* 64-bit wrapping arithmetic on 8-byte values.
Add64(a, b) == AddFrom(a, b, 1, 0)
Neg64(b) == Add64([k \in 1..8 |-> 255 - b[k]], USize(1))
Sub64(a, b) == Add64(a, Neg64(b))

\* An imm32 operand sign-extended (add/sub r/m64, imm32) or zero-extended
\* (mov r32, imm32) to 64 bits.
SignExtend32(imm) ==
    imm \o (IF imm[4] >= 128 THEN <<255, 255, 255, 255>> ELSE <<0, 0, 0, 0>>)
ZeroExtend32(imm) == imm \o <<0, 0, 0, 0>>

\* The tape, a Vec<u8>: its length, and its cells, of which those that hold
\* the fill value are not stored.  Cell indices are 0-based.
VecGet(t, i) == IF i \in DOMAIN t.cells THEN t.cells[i] ELSE t.fill

VecSet(t, i, v) ==
    LET d == (DOMAIN t.cells \ {i}) \cup (IF v = t.fill THEN {} ELSE {i})
    IN [t EXCEPT !.cells = [j \in d |-> IF j = i THEN v ELSE t.cells[j]]]

NoVec == [len |-> 0, fill |-> 0, cells |-> <<>>]

\* The index of the cell rsi points at, -1 when rsi is outside the tape.
TapeIndex(rsi, t) ==
    IF rsi[5] = 0 /\ rsi[6] = 0 /\ rsi[7] = 0 /\ rsi[8] = 0 /\ rsi[4] < 128
    THEN LET v == rsi[1] + 256 * rsi[2] + 65536 * rsi[3] + 16777216 * rsi[4]
         IN IF v < t.len THEN v ELSE -1
    ELSE -1

\* The instruction at offset rip of code: its operation, immediate and length.
Decode(code, rip) ==
    LET b(k) == IF rip + k <= Len(code) THEN code[rip + k] ELSE -1
        imm32(k) == SubSeq(code, rip + k, rip + k + 3)
        has(n) == rip + n <= Len(code)
        plain(op, n) == [op |-> op, imm |-> <<>>, len |-> n]
    IN CASE b(1) = \h48 /\ b(2) = \hff /\ b(3) = \hc6 -> plain("inc_rsi", 3)
         [] b(1) = \h48 /\ b(2) = \hff /\ b(3) = \hce -> plain("dec_rsi", 3)
         [] b(1) = \h48 /\ b(2) = \h81 /\ b(3) = \hc6 /\ has(7) ->
              [op |-> "add_rsi", imm |-> imm32(4), len |-> 7]
         [] b(1) = \h48 /\ b(2) = \h81 /\ b(3) = \hee /\ has(7) ->
              [op |-> "sub_rsi", imm |-> imm32(4), len |-> 7]
         [] b(1) = \hfe /\ b(2) = \h06 -> plain("inc_byte", 2)
         [] b(1) = \hfe /\ b(2) = \h0e -> plain("dec_byte", 2)
         [] b(1) = \h80 /\ b(2) = \h06 /\ has(3) ->
              [op |-> "add_byte", imm |-> <<b(3)>>, len |-> 3]
         [] b(1) = \h80 /\ b(2) = \h2e /\ has(3) ->
              [op |-> "sub_byte", imm |-> <<b(3)>>, len |-> 3]
         [] b(1) = \h80 /\ b(2) = \h3e /\ has(3) ->
              [op |-> "cmp_byte", imm |-> <<b(3)>>, len |-> 3]
         [] b(1) = \h0f /\ b(2) = \h84 /\ has(6) ->
              [op |-> "je", imm |-> imm32(3), len |-> 6]
         [] b(1) = \h0f /\ b(2) = \h85 /\ has(6) ->
              [op |-> "jne", imm |-> imm32(3), len |-> 6]
         [] b(1) = \hb8 /\ has(5) -> [op |-> "mov_eax", imm |-> imm32(2), len |-> 5]
         [] b(1) = \hbf /\ has(5) -> [op |-> "mov_edi", imm |-> imm32(2), len |-> 5]
         [] b(1) = \hba /\ has(5) -> [op |-> "mov_edx", imm |-> imm32(2), len |-> 5]
         [] b(1) = \h48 /\ b(2) = \h31 /\ b(3) = \hc0 -> plain("xor_rax", 3)
         [] b(1) = \h48 /\ b(2) = \h31 /\ b(3) = \hff -> plain("xor_rdi", 3)
         [] b(1) = \h0f /\ b(2) = \h05 -> plain("syscall", 2)
         [] b(1) = \hc3 -> plain("ret", 1)
         [] OTHER -> plain("illegal", 0)

\* The bytes a read of fd 0 may deliver, and the bytes a read of memory
\* outside the tape may find.
InputBytes == {0, 255}
StrayBytes == {0, 1}

Zero64 == USize(0)
EFAULT == Neg64(USize(14))

\* A machine state m holds the registers (rip, rsi, rax, rdi, rdx, zf), the
\* mapping (code), the tape, the heap buffer of jit_code (heap), where the
\* allocator has put that buffer relative to the tape (layout), the output,
\* the status and whether an access has strayed outside the tape.
Crashed(m) == [m EXCEPT !.status = "crashed"]
Strayed(m) == [m EXCEPT !.strayed = TRUE]

\* rsi as a signed number when it is within 2^31 of the base of the tape.
NearOffset(rsi) ==
    IF rsi[5] = 0 /\ rsi[6] = 0 /\ rsi[7] = 0 /\ rsi[8] = 0 /\ rsi[4] < 128
       THEN Some(SInt32(LowU32(rsi)))
    ELSE IF rsi[5] = 255 /\ rsi[6] = 255 /\ rsi[7] = 255 /\ rsi[8] = 255 /\ rsi[4] >= 128
       THEN Some(SInt32(LowU32(rsi)))
    ELSE None

\* The tape and jit_code are vectors on one heap.  With layout "before" the
\* bytes of jit_code end where the tape begins, with "after" they begin where
\* the tape ends, with "apart" they are out of reach.  The 1-based index of
\* the byte of jit_code that rsi points at, 0 when it points at none.
HeapHit(m) ==
    LET o == NearOffset(m.rsi)
        k == CASE m.layout = "before" -> Len(m.heap) + 1 + o[1]
               [] m.layout = "after" -> o[1] - m.tape.len + 1
               [] OTHER -> 0
    IN IF o # None /\ k >= 1 /\ k <= Len(m.heap) THEN k ELSE 0

\* A Vec of length 0 owns no allocation: its pointer dangles into the
\* unmapped first page, where every access faults.
Dangling(m) == m.tape.len = 0

\* A read-modify-write of the byte at rsi by the function F on bytes.  Outside the tape the
\* behaviour is undefined: the write lands on a byte of jit_code if rsi
\* points there, and otherwise the process crashes or the write lands in
\* memory the model does not hold (the flag then depends on that memory).
ModifyCell(m, F, len) ==
    LET idx == TapeIndex(m.rsi, m.tape)
        k == HeapHit(m)
        next == [m EXCEPT !.rip = @ + len]
    IN IF idx >= 0
       THEN {[next EXCEPT !.tape = VecSet(@, idx, F[VecGet(m.tape, idx)]),
                          !.zf = (F[VecGet(m.tape, idx)] = 0)]}
       ELSE IF Dangling(m) THEN {Crashed(Strayed(m))}
       ELSE IF k > 0
       THEN {[Strayed(next) EXCEPT !.heap[k] = F[@], !.zf = (F[m.heap[k]] = 0)]}
       ELSE {Crashed(Strayed(m))} \cup {[Strayed(next) EXCEPT !.zf = z] : z \in BOOLEAN}

\* cmp byte [rsi], imm8
CompareCell(m, imm, len) ==
    LET idx == TapeIndex(m.rsi, m.tape)
        k == HeapHit(m)
        next == [m EXCEPT !.rip = @ + len]
    IN IF idx >= 0
       THEN {[next EXCEPT !.zf = (VecGet(m.tape, idx) = imm)]}
       ELSE IF Dangling(m) THEN {Crashed(Strayed(m))}
       ELSE IF k > 0
       THEN {[Strayed(next) EXCEPT !.zf = (m.heap[k] = imm)]}
       ELSE {Crashed(Strayed(m))} \cup {[Strayed(next) EXCEPT !.zf = z] : z \in BOOLEAN}

\* je / jne rel32: a destination outside the mapping is a crash.
Branch(m, taken, rel, len) ==
    IF ~taken THEN {[m EXCEPT !.rip = @ + len]}
    ELSE IF rel >= -(m.rip + len) /\ rel < Len(m.code) - m.rip - len
         THEN {[m EXCEPT !.rip = @ + len + rel]}
         ELSE {Crashed(m)}

\* syscall: write(1, rsi, 1) and read(0, rsi, 1) as the generator sets them
\* up; any other request is outside the model and ends the run as a crash.
\* With rsi outside the tape the kernel copies from or to whatever is there,
\* or fails with EFAULT.
Syscall(m, maxOut) ==
    LET idx == TapeIndex(m.rsi, m.tape)
        k == HeapHit(m)
        next == [m EXCEPT !.rip = @ + 2]
    IN IF m.rax = USize(1) /\ m.rdi = USize(1) /\ m.rdx = USize(1)
       THEN IF Len(m.out) >= maxOut THEN {}
            ELSE IF idx >= 0
            THEN {[next EXCEPT !.out = Append(@, VecGet(m.tape, idx)), !.rax = USize(1)]}
            ELSE IF Dangling(m) THEN {[Strayed(next) EXCEPT !.rax = EFAULT]}
            ELSE IF k > 0
            THEN {[Strayed(next) EXCEPT !.out = Append(@, m.heap[k]), !.rax = USize(1)]}
            ELSE {[Strayed(next) EXCEPT !.rax = EFAULT]}
                 \cup {[Strayed(next) EXCEPT !.out = Append(@, v), !.rax = USize(1)] :
                         v \in StrayBytes}
       ELSE IF m.rax = Zero64 /\ m.rdi = Zero64 /\ m.rdx = USize(1)
       THEN IF idx >= 0
            THEN {[next EXCEPT !.rax = Zero64]}
                 \cup {[next EXCEPT !.tape = VecSet(@, idx, v), !.rax = USize(1)] :
                         v \in InputBytes}
            ELSE IF Dangling(m) THEN {[Strayed(next) EXCEPT !.rax = EFAULT]}
            ELSE IF k > 0
            THEN {[Strayed(next) EXCEPT !.rax = Zero64]}
                 \cup {[Strayed(next) EXCEPT !.heap[k] = v, !.rax = USize(1)] :
                         v \in InputBytes}
            ELSE {[Strayed(next) EXCEPT !.rax = EFAULT],
                  [Strayed(next) EXCEPT !.rax = Zero64],
                  [Strayed(next) EXCEPT !.rax = USize(1)]}
       ELSE {Crashed(m)}

\* The machine states one instruction leads to from m.
Exec(m, maxOut) ==
    LET d == Decode(m.code, m.rip)
        step == [m EXCEPT !.rip = @ + d.len]
    IN CASE d.op = "inc_rsi" ->
              LET r == Add64(m.rsi, USize(1)) IN {[step EXCEPT !.rsi = r, !.zf = (r = Zero64)]}
         [] d.op = "dec_rsi" ->
              LET r == Sub64(m.rsi, USize(1)) IN {[step EXCEPT !.rsi = r, !.zf = (r = Zero64)]}
         [] d.op = "add_rsi" ->
              LET r == Add64(m.rsi, SignExtend32(d.imm))
              IN {[step EXCEPT !.rsi = r, !.zf = (r = Zero64)]}
         [] d.op = "sub_rsi" ->
              LET r == Sub64(m.rsi, SignExtend32(d.imm))
              IN {[step EXCEPT !.rsi = r, !.zf = (r = Zero64)]}
         [] d.op = "inc_byte" -> ModifyCell(m, [v \in 0..255 |-> (v + 1) % 256], d.len)
         [] d.op = "dec_byte" -> ModifyCell(m, [v \in 0..255 |-> (v - 1) % 256], d.len)
         [] d.op = "add_byte" -> ModifyCell(m, [v \in 0..255 |-> (v + d.imm[1]) % 256], d.len)
         [] d.op = "sub_byte" -> ModifyCell(m, [v \in 0..255 |-> (v - d.imm[1]) % 256], d.len)
         [] d.op = "cmp_byte" -> CompareCell(m, d.imm[1], d.len)
         [] d.op = "je" -> Branch(m, m.zf, SInt32(d.imm), d.len)
         [] d.op = "jne" -> Branch(m, ~m.zf, SInt32(d.imm), d.len)
         [] d.op = "mov_eax" -> {[step EXCEPT !.rax = ZeroExtend32(d.imm)]}
         [] d.op = "mov_edi" -> {[step EXCEPT !.rdi = ZeroExtend32(d.imm)]}
         [] d.op = "mov_edx" -> {[step EXCEPT !.rdx = ZeroExtend32(d.imm)]}
         [] d.op = "xor_rax" -> {[step EXCEPT !.rax = Zero64, !.zf = TRUE]}
         [] d.op = "xor_rdi" -> {[step EXCEPT !.rdi = Zero64, !.zf = TRUE]}
         [] d.op = "syscall" -> Syscall(m, maxOut)
         [] d.op = "ret" -> {[step EXCEPT !.status = "returned"]}
         [] OTHER -> {Crashed(m)}

(***************************************************************************)
(* src/main.rs: Brainfuck::set_tape_size and Brainfuck::run                *)
(***************************************************************************)
MaxRunLen == 2    \* longest source text of a program that is run
MaxRuns == 2      \* calls of run on one program
MaxOut == 1       \* bytes of output that are recorded
MaxReach == 2     \* cells outside the tape that rsi is followed to

\* A mutant of default_vec: the size asked for is ignored.
default_vec_fixed(size, default) ==
    [len |-> DefaultTapeSize, fill |-> default, cells |-> <<>>]

\* default_vec: repeat(default).take(size).collect()
default_vec(size, default) == [len |-> size, fill |-> default, cells |-> <<>>]

\* The registers on entry: rdi = null, rsi = the tape (offset 0).
CpuOnEntry ==
    [rip |-> 0, rsi |-> Zero64, rax |-> Zero64, rdi |-> Zero64, rdx |-> Zero64,
     zf |-> FALSE]

NoCpu == [rip |-> 0, rsi |-> Zero64, rax |-> Zero64, rdi |-> Zero64, rdx |-> Zero64,
          zf |-> FALSE]

Alphabet == Symbols \cup {" "}
Sources == UNION {[1..k -> Alphabet] : k \in 0..MaxLen}
RunSources == UNION {[1..k -> Symbols] : k \in 0..MaxRunLen}
Seeds == 0..MaxSeed
TapeSizes == 0..MaxTape
Layouts == {"apart", "before", "after"}

NoRun ==
    /\ run_state = "idle"
    /\ tape = NoVec
    /\ mapping = <<>>
    /\ cpu = NoCpu
    /\ stdout = <<>>
    /\ layout = "apart"
    /\ runs = 0
    /\ strayed = FALSE
    /\ dirty = FALSE

NoProgram ==
    /\ result = "none"
    /\ insts = <<>>
    /\ jit_code = <<>>
    /\ tape_size = 0
    /\ last_set = None

NoRunLength ==
    /\ rl_input = <<>>
    /\ rl_iter = RunLengthNew(<<>>)
    /\ rl_out = <<>>
    /\ rl_calls = 0
    /\ rl_done = FALSE

NoEnc ==
    /\ enc_op = "none"
    /\ enc_amount = Zero64
    /\ enc_cell = 0

\* Brainfuck::new(&source)
New ==
    /\ result = "none"
    /\ \E seed \in Seeds :
         LET r == BrainfuckNew(source, seed)
         IN /\ result' = r.result
            /\ insts' = r.insts
            /\ jit_code' = r.jit_code
            /\ tape_size' = r.tape_size
    /\ UNCHANGED <<source, last_set, runVars, rlVars, encVars>>

\* Brainfuck::set_tape_size(size)
SetTapeSize ==
    /\ result = "Ok"
    /\ run_state = "idle"
    /\ \E size \in TapeSizes :
         /\ tape_size' = size
         /\ last_set' = Some(size)
    /\ UNCHANGED <<source, result, insts, jit_code, runVars, rlVars, encVars>>

\* Brainfuck::run up to the call of func: the tape is allocated, the code is
\* copied into the executable mapping, and func is entered.
RunStart ==
    /\ result = "Ok"
    /\ run_state = "idle"
    /\ runs < MaxRuns
    /\ tape' = default_vec(tape_size, 0)
    /\ layout' \in Layouts
    /\ mapping' = jit_code
    /\ cpu' = CpuOnEntry
    /\ run_state' = "running"
    /\ runs' = runs + 1
    /\ UNCHANGED <<bfVars, stdout, strayed, dirty, rlVars, encVars>>

Machine ==
    [rip |-> cpu.rip, rsi |-> cpu.rsi, rax |-> cpu.rax, rdi |-> cpu.rdi,
     rdx |-> cpu.rdx, zf |-> cpu.zf, code |-> mapping, tape |-> tape,
     heap |-> jit_code, layout |-> layout, out |-> stdout, status |-> "running", strayed |-> strayed]

\* One instruction of the generated code, among the outcomes in `outcomes`;
\* on ret, run returns and drops the tape and the mapping.
Step(outcomes) ==
    /\ run_state = "running"
    /\ \E m \in outcomes :
         /\ cpu' = IF m.status = "returned" THEN NoCpu
                   ELSE [rip |-> m.rip, rsi |-> m.rsi, rax |-> m.rax, rdi |-> m.rdi,
                         rdx |-> m.rdx, zf |-> m.zf]
         /\ tape' = IF m.status = "returned" THEN NoVec ELSE m.tape
         /\ mapping' = IF m.status = "returned" THEN <<>> ELSE mapping
         /\ jit_code' = m.heap
         /\ stdout' = m.out
         /\ strayed' = m.strayed
         /\ run_state' = IF m.status = "returned" THEN "idle" ELSE m.status
         /\ dirty' = (dirty \/ (m.status = "returned"
                                  /\ \E i \in DOMAIN m.tape.cells : VecGet(m.tape, i) # 0))
    /\ UNCHANGED <<source, result, insts, tape_size, last_set, layout, runs,
                   rlVars, encVars>>

\* rsi is at most MaxReach cells outside the tape.
InReach(m) ==
    LET o == NearOffset(m.rsi)
    IN o # None /\ o[1] >= -MaxReach /\ o[1] <= m.tape.len + MaxReach

\* A step of a run; the walk of rsi away from the tape is cut at MaxReach.
ExecStep == Step({m \in Exec(Machine, MaxOut) : InReach(m)})

(***************************************************************************)
(* Spec: Brainfuck::new on every short text, then the setter.              *)
(***************************************************************************)
Init ==
    /\ source \in Sources
    /\ NoProgram /\ NoRun /\ NoRunLength /\ NoEnc

Next == New \/ SetTapeSize

Spec == Init /\ [][Next]_vars

(***************************************************************************)
(* SpecRun: a program is built, configured and run, several times.         *)
(***************************************************************************)
InitRun ==
    /\ source \in RunSources
    /\ NoProgram /\ NoRun /\ NoRunLength /\ NoEnc

NextRun == New \/ SetTapeSize \/ RunStart \/ ExecStep

SpecRun == InitRun /\ [][NextRun]_vars

(***************************************************************************)
(* SpecRL: next is called on a RunLength over a short sequence.            *)
(***************************************************************************)
MaxRLLen == 5     \* longest sequence a RunLength iterates over

RLInputs == UNION {[1..k -> {1, 2, 3}] : k \in 0..MaxRLLen}

InitRL ==
    /\ rl_input \in RLInputs
    /\ rl_iter = RunLengthNew(rl_input)
    /\ rl_out = <<>>
    /\ rl_calls = 0
    /\ rl_done = FALSE
    /\ source = <<>>
    /\ NoProgram /\ NoRun /\ NoEnc

\* One call of next.
RLNext ==
    /\ LET r == RunLengthNext(rl_iter)
       IN /\ rl_iter' = r.p
          /\ rl_out' = IF r.val = None THEN rl_out ELSE Append(rl_out, r.val[1])
          /\ rl_done' = (rl_done \/ r.val = None)
          /\ rl_calls' = IF rl_done THEN rl_calls ELSE rl_calls + 1
    /\ UNCHANGED <<rl_input, bfVars, runVars, encVars>>

NextRL == RLNext

SpecRL == InitRL /\ [][NextRL]_vars

(***************************************************************************)
(* SpecEnc: the encoding of one move/adjust instruction is emitted and     *)
(* executed, for amounts over the whole range of usize.                    *)
(***************************************************************************)
EncAmounts ==
    { USize(1), USize(2), USize(255), USize(256), USize(257),
      <<255, 255, 255, 127, 0, 0, 0, 0>>,    \* 2^31 - 1
      <<0, 0, 0, 128, 0, 0, 0, 0>>,          \* 2^31
      <<255, 255, 255, 255, 0, 0, 0, 0>>,    \* 2^32 - 1
      <<1, 0, 0, 0, 1, 0, 0, 0>> }           \* 2^32 + 1

InitEnc ==
    /\ enc_op \in {"IncPtr", "DecPtr", "IncVal", "DecVal"}
    /\ enc_amount \in EncAmounts
    /\ enc_cell \in {0, 1, 255}
    /\ source = <<>>
    /\ NoProgram /\ NoRun /\ NoRunLength

\* The instruction is compiled alone (its emit function, then emit_ret) and
\* entered on a tape of one cell.
EncEmit ==
    /\ run_state = "idle"
    /\ runs = 0
    /\ LET code == CASE enc_op = "IncPtr" -> emit_inc(CursorNew, enc_amount)
                     [] enc_op = "DecPtr" -> emit_dec(CursorNew, enc_amount)
                     [] enc_op = "IncVal" -> emit_inc_val(CursorNew, enc_amount)
                     [] enc_op = "DecVal" -> emit_dec_val(CursorNew, enc_amount)
       IN /\ jit_code' = emit_ret(code).buf
          /\ mapping' = emit_ret(code).buf
    /\ tape' = VecSet(default_vec(1, 0), 0, enc_cell)
    /\ cpu' = CpuOnEntry
    /\ run_state' = "running"
    /\ runs' = 1
    /\ UNCHANGED <<source, result, insts, tape_size, last_set, stdout, layout,
                   strayed, dirty, rlVars, encVars>>

\* A step of the instruction executed alone.
EncStep == Step(Exec(Machine, MaxOut))

NextEnc == EncEmit \/ EncStep

SpecEnc == InitEnc /\ [][NextEnc]_vars

(***************************************************************************)
(* Definitions the properties are stated with: they restate the spec's     *)
(* words and are computed without the operators of the model above.        *)
(***************************************************************************)
Built == result = "Ok"

\* The text with every character outside the eight symbols deleted.
RECURSIVE Strip(_)
Strip(s) ==
    IF s = <<>> THEN <<>>
    ELSE IF Head(s) \in {">", "<", "+", "-", ".", ",", "[", "]"}
         THEN <<Head(s)>> \o Strip(Tail(s))
         ELSE Strip(Tail(s))

\* The number of c among the first k characters of f.
Count(f, c, k) == Cardinality({j \in 1..k : f[j] = c})

\* Some prefix holds more ']' than '[', or the whole text more '[' than ']'.
Unbalanced(f) ==
    \/ \E k \in 1..Len(f) : Count(f, "]", k) > Count(f, "[", k)
    \/ Count(f, "[", Len(f)) > Count(f, "]", Len(f))

\* The length of the maximal run of f that starts at position j.
RunLen(f, j) ==
    LET e == CHOOSE e \in j..Len(f) :
                 /\ \A m \in j..e : f[m] = f[j]
                 /\ e = Len(f) \/ f[e + 1] # f[j]
    IN e - j + 1

OpName(c) ==
    CASE c = ">" -> "IncPtr" [] c = "<" -> "DecPtr"
      [] c = "+" -> "IncVal" [] c = "-" -> "DecVal"
      [] c = "." -> "PrintCell" [] c = "," -> "ReadChar"
      [] c = "[" -> "JmpFwd" [] c = "]" -> "JmpBack"

MoveAdjust == {"IncPtr", "DecPtr", "IncVal", "DecVal"}
Jumps == {"JmpFwd", "JmpBack"}

\* What the runs of f from position j on contribute: one amount-carrying
\* instruction per run of a move/adjust symbol, N instructions per run of N
\* I/O or bracket symbols (jump targets left out).
RECURSIVE ExpectedFrom(_, _)
ExpectedFrom(f, j) ==
    IF j > Len(f) THEN <<>>
    ELSE LET n == RunLen(f, j)
             op == OpName(f[j])
         IN (IF op \in MoveAdjust THEN <<<<op, n>>>> ELSE [k \in 1..n |-> <<op>>])
            \o ExpectedFrom(f, j + n)

\* An instruction without its jump target.
Shape(inst) == IF inst[1] \in Jumps THEN <<inst[1]>> ELSE inst

Indices == 0..(Len(insts) - 1)
At(i) == insts[i + 1]
FwdAt(i) == is_jmp_fwd(At(i))
BackAt(i) == is_jmp_back(At(i))
JumpAt(i) == At(i)[1] \in Jumps

\* The width of an instruction's encoding.
Width(inst) ==
    CASE inst[1] \in {"IncPtr", "DecPtr"} -> IF inst[2] = 1 THEN 3 ELSE 7
      [] inst[1] \in {"IncVal", "DecVal"} -> IF inst[2] = 1 THEN 2 ELSE 3
      [] inst[1] = "PrintCell" -> 17
      [] inst[1] = "ReadChar" -> 13
      [] inst[1] \in Jumps -> 9

\* The byte offset at which the encoding of instruction i ends.
RECURSIVE EndOffset(_)
EndOffset(i) == IF i < 0 THEN 0 ELSE EndOffset(i - 1) + Width(At(i))

\* The rel32 displacement of the jump with index i, read from the code buffer.
Disp(i) == SInt32(SubSeq(jit_code, EndOffset(i) - 3, EndOffset(i)))

\* Where the taken branch of the jump with index i continues.
Destination(i) == EndOffset(i) + Disp(i)

(***************************************************************************)
(* C1: in every built program each JmpFwd at i with target t faces a       *)
(* JmpBack at t with target i and each JmpBack at t with target i faces a  *)
(* JmpFwd at i with target t; no two jumps share a target, no JmpFwd keeps *)
(* the placeholder target 0, and the pairs nest without crossing.          *)
(***************************************************************************)
C1_BracketsMatched ==
    Built =>
      /\ \A i \in Indices :
           FwdAt(i) => /\ At(i)[2] \in Indices
                       /\ At(i)[2] # 0
                       /\ At(At(i)[2]) = JmpBack(i)
      /\ \A t \in Indices :
           BackAt(t) => /\ At(t)[2] \in Indices
                        /\ At(At(t)[2]) = JmpFwd(t)
      /\ \A a, b \in Indices :
           (JumpAt(a) /\ JumpAt(b) /\ a # b) => At(a)[2] # At(b)[2]
      /\ \A i, j \in Indices :
           (FwdAt(i) /\ FwdAt(j) /\ i < j /\ j < At(i)[2]) => At(j)[2] < At(i)[2]

\* A built program with one pair of brackets inside another.
C1_Witness ==
    /\ Built
    /\ \E i, j \in Indices : FwdAt(i) /\ FwdAt(j) /\ i < j /\ j < At(i)[2]

(***************************************************************************)
(* C2: new returns UnbalancedBrackets exactly when the brackets of the     *)
(* source are unbalanced and a compiled program otherwise; "]", "[", "[[]" *)
(* and "][ " fail, "[]" and "[[]]" succeed.                                *)
(***************************************************************************)
C2_ErrorIffUnbalanced ==
    result # "none" =>
      /\ result = (IF Unbalanced(Strip(source)) THEN "Err" ELSE "Ok")
      /\ source \in {<<"]">>, <<"[">>, <<"[", "[", "]">>, <<"]", "[", " ">>}
            => result = "Err"
      /\ source \in {<<"[", "]">>, <<"[", "[", "]", "]">>} => result = "Ok"

\* new has failed on a text whose opens are never closed.
C2_Witness ==
    /\ result = "Err"
    /\ \A k \in 1..Len(source) : Count(source, "]", k) <= Count(source, "[", k)
    /\ Count(source, "[", Len(source)) > Count(source, "]", Len(source))

(***************************************************************************)
(* C3: each maximal run of N equal symbols of the filtered source yields,  *)
(* in order, one instruction with amount N for > < + - and N instructions  *)
(* for . , [ ]; so every amount is at least 1 and no two neighbours are    *)
(* move/adjust instructions of the same kind.                              *)
(***************************************************************************)
C3_RunsCollapsed ==
    Built =>
      /\ [k \in 1..Len(insts) |-> Shape(insts[k])] = ExpectedFrom(Strip(source), 1)
      /\ \A i \in Indices : At(i)[1] \in MoveAdjust => At(i)[2] >= 1
      /\ \A i \in Indices :
           (i + 1 \in Indices /\ At(i)[1] \in MoveAdjust) => At(i + 1)[1] # At(i)[1]

\* A built program holding a collapsed run and a run of separate instructions.
C3_Witness ==
    /\ Built
    /\ \E i \in Indices : At(i)[1] \in MoveAdjust /\ At(i)[2] >= 2
    /\ \E i \in Indices :
         i + 1 \in Indices /\ At(i) = At(i + 1) /\ At(i)[1] \in {"PrintCell", "ReadChar"}

(***************************************************************************)
(* C4: the result of new on a text equals its result on the text with      *)
(* every unrecognized character deleted; such a character yields no        *)
(* instruction, no error, and does not split a run.                        *)
(***************************************************************************)
C4_FilterFirst ==
    result # "none" =>
      /\ LET r == BrainfuckNew(Strip(source), 0)
         IN result = r.result /\ insts = r.insts /\ jit_code = r.jit_code
      /\ source = <<"+", " ", "+">> => insts = <<IncVal(2)>>

\* new has run on a text with an unrecognized character inside a run.
C4_Witness ==
    /\ Built
    /\ \E k \in 2..(Len(source) - 1) :
         source[k] \notin Symbols /\ source[k - 1] = source[k + 1]
                                  /\ source[k - 1] \in {">", "<", "+", "-"}
    /\ Len(insts) = 1

(***************************************************************************)
(* C7: compile gives the same bytes for the same instruction sequence      *)
(* whatever the storage order of the offset map and whatever tape size is  *)
(* configured.                                                             *)
(***************************************************************************)
C7_CompileDeterministic ==
    Built => \A seed \in Seeds :
               LET c == compile(insts, seed)
               IN ~c.panic /\ c.code = jit_code

\* A built program whose offset map is stored in different orders under two
\* seeds, after the tape size has been changed.
C7_Witness ==
    /\ Built
    /\ last_set # None
    /\ \E s1, s2 \in Seeds :
         PassOne(insts, Len(insts), s1).addr_mapping
            # PassOne(insts, Len(insts), s2).addr_mapping

(***************************************************************************)
(* C9: in the final code buffer the taken branch of every jump continues   *)
(* at the byte after the encoding of its partner, and no forward jump      *)
(* keeps the dummy displacement of pass one.                               *)
(***************************************************************************)
C9_JumpsLandAfterPartner ==
    Built =>
      \A i \in Indices :
        JumpAt(i) =>
          /\ Destination(i) = EndOffset(At(i)[2])
          /\ FwdAt(i) => Disp(i) # DummyOffset - 9

\* A built program with a loop whose body is not empty.
C9_Witness ==
    /\ Built
    /\ \E i \in Indices : FwdAt(i) /\ At(i)[2] > i + 1

(***************************************************************************)
(* C10: compile never fails on a built program: a JmpBack(n) finds the end *)
(* offset of n recorded, pass two finds the end offset of every target     *)
(* recorded and not below the site of the jump, and the buffer ends with   *)
(* 0xc3 right after the encodings of all instructions.                     *)
(***************************************************************************)
C10_CompileNeverFails ==
    /\ result # "Panic"
    /\ Built =>
         /\ \A seed \in Seeds :
              /\ \A i \in Indices :
                   BackAt(i) =>
                     HashMapHas(PassOne(insts, i, seed).addr_mapping, At(i)[2])
              /\ LET one == PassOne(insts, Len(insts), seed)
                 IN \A k \in 1..Len(one.fwd_jumps) :
                      LET a == HashMapIndex(one.addr_mapping, one.fwd_jumps[k][2])
                      IN a # None /\ a[1] >= one.fwd_jumps[k][1]
         /\ Len(jit_code) = EndOffset(Len(insts) - 1) + 1
         /\ jit_code[Len(jit_code)] = \hc3

\* A built program with jumps to patch.
C10_Witness ==
    /\ Built
    /\ \E i \in Indices : BackAt(i)
    /\ jit_code[Len(jit_code)] = \hc3

(***************************************************************************)
(* C5: on a finite sequence next yields pairs and then None; every count   *)
(* is at least 1, neighbouring pairs hold different elements (each run is  *)
(* maximal), and the pairs expand to the input; on the empty input the     *)
(* first call returns None, on a one-element input (1, element).           *)
(***************************************************************************)
RECURSIVE Expand(_)
Expand(pairs) ==
    IF pairs = <<>> THEN <<>>
    ELSE [k \in 1..pairs[1][1] |-> pairs[1][2]] \o Expand(Tail(pairs))

\* What the iterator has not yielded yet: a peeked element, then the rest.
Remaining ==
    (IF rl_iter.peeked = None \/ rl_iter.peeked[1] = None THEN <<>>
     ELSE <<rl_iter.peeked[1][1]>>) \o rl_iter.iter

C5_RunLengthPairs ==
    /\ \A k \in 1..Len(rl_out) : rl_out[k][1] >= 1
    /\ \A k \in 1..(Len(rl_out) - 1) : rl_out[k][2] # rl_out[k + 1][2]
    /\ (rl_out # <<>> /\ Remaining # <<>>) => Remaining[1] # rl_out[Len(rl_out)][2]
    /\ Expand(rl_out) \o Remaining = rl_input
    /\ rl_done => Expand(rl_out) = rl_input
    /\ rl_calls = Len(rl_out) + (IF rl_done THEN 1 ELSE 0)
    /\ (rl_input = <<>> /\ rl_calls >= 1) => (rl_done /\ rl_out = <<>>)
    /\ (Len(rl_input) = 1 /\ rl_calls >= 1) => rl_out = <<<<1, rl_input[1]>>>>

\* next has returned None after several pairs, one of them a run of two or more.
C5_Witness ==
    /\ rl_done
    /\ Len(rl_out) >= 2
    /\ \E k \in 1..Len(rl_out) : rl_out[k][1] >= 2

(***************************************************************************)
(* C6: the collapsed code behaves as one instruction per symbol; this      *)
(* requires that the encoding of IncVal(N) / DecVal(N) changes the cell by *)
(* N mod 256 and that the encoding of IncPtr(N) / DecPtr(N) moves the      *)
(* cursor by exactly N cells, for every N >= 1.                            *)
(***************************************************************************)
C6_EncodingMovesByN ==
    (enc_op # "none" /\ run_state = "running" /\ cpu.rip = Len(mapping) - 1) =>
      CASE enc_op = "IncPtr" ->
             cpu.rsi = Add64(Zero64, enc_amount) /\ VecGet(tape, 0) = enc_cell
        [] enc_op = "DecPtr" ->
             cpu.rsi = Sub64(Zero64, enc_amount) /\ VecGet(tape, 0) = enc_cell
        [] enc_op = "IncVal" ->
             cpu.rsi = Zero64 /\ VecGet(tape, 0) = (enc_cell + enc_amount[1]) % 256
        [] enc_op = "DecVal" ->
             cpu.rsi = Zero64 /\ VecGet(tape, 0) = (enc_cell - enc_amount[1]) % 256

(***************************************************************************)
(* C8: every run starts on a fresh tape of tape_size() zero cells, where   *)
(* tape_size() is 30000 if the setter was never called and the last value  *)
(* passed to it otherwise; nothing an earlier run wrote is visible; and    *)
(* neither run nor set_tape_size changes insts or jit_code.                *)
(***************************************************************************)
ExpectedTapeSize == IF last_set = None THEN 30000 ELSE last_set[1]

RunStarts == run_state = "idle" /\ run_state' = "running"

AllZero(t) == t.fill = 0 /\ \A i \in DOMAIN t.cells : t.cells[i] = 0

C8_Step ==
    /\ Built => (insts' = insts /\ jit_code' = jit_code /\ tape_size = ExpectedTapeSize)
    /\ RunStarts => (tape'.len = ExpectedTapeSize /\ AllZero(tape'))

\* The claim as made: after any sequence of calls.
C8_FreshTapeAndFrame == [][C8_Step]_vars

\* The claim as amended: as long as no access of a run has fallen outside
\* its tape.
C8_FreshTapeAndFrameInBounds == [][~strayed' => C8_Step]_vars

\* A second run has just started on a fresh tape, after set_tape_size was
\* called and an earlier run left a non-zero cell, all accesses in bounds.
C8_Witness ==
    /\ runs = 2
    /\ run_state = "running"
    /\ cpu = CpuOnEntry
    /\ dirty
    /\ ~strayed
    /\ last_set # None
    /\ tape.len = last_set[1]
    /\ AllZero(tape)

====
